---------------------------- MODULE Spec2Model ----------------------------
(***************************************************************************)
(* A model of app.py, the Edgo Telegram bot: the per-user conversation     *)
(* state machine (handle_message and the handlers it calls), the session   *)
(* store (user_state under user_state_lock) and the thread pool that runs  *)
(* process_user_message for every webhook delivery.                        *)
(*                                                                         *)
(* A pool thread executes its handler one primitive operation at a time:   *)
(* every store operation (one critical section of user_state_lock), every  *)
(* outbound send and the generation call are separate steps, so that the   *)
(* operations of two threads interleave as they can in the program.  The   *)
(* remaining operations of a thread are its continuation `k`, computed by  *)
(* the handler operators below from the handler's code.                    *)
(***************************************************************************)
EXTENDS Integers, Sequences, FiniteSets, TLC

VARIABLES
    user_state,     \* app.py:38  chat_id -> session dict (absent: not in DOMAIN)
    queue,          \* the executor's work queue: submitted (chat_id, incoming_msg)
    thread,         \* one frame per pool thread running process_user_message
    recording,      \* whether a thread records what its task did (see Idle)
    user_state_lock,\* app.py:39  the caller inside `with user_state_lock:`, or 0
    call,           \* the callers of the store operations, line by line
    webhook,        \* what the webhook route has received, acknowledged, submitted
    gemini,         \* one call of call_gemini, request by request
    split           \* one call of split_message, iteration by iteration

vars == <<user_state, queue, thread, recording, user_state_lock, call,
          webhook, gemini, split>>

-----------------------------------------------------------------------------
(* Bounds of the model *)

MaxQueue == 1
\* updates delivered to the webhook in a run that counts them
MaxUpdates == 3
\* answers the generation server has ready for one call of call_gemini
ScriptLen == 4
\* longest text and largest chunk_size given to split_message on its own,
\* and the passes of its loop that are followed
MaxText == 4
MaxChunk == 3
MaxPasses == 6
\* callers that run store operations at once
NumCallers == 3

\* chat ids
Users == {1}
\* the threads of the pool (max_workers=20 in the program, app.py:42)
Threads == {1, 2}

-----------------------------------------------------------------------------
(* Conversation states, app.py:51-58 *)

STATE_MENU == "menu"
STATE_LEARN_TOPIC == "learn_topic"
STATE_MCQ_TOPIC == "mcq_topic"
STATE_LEARN_LANGUAGE_SELECTION == "learn_language_selection"
STATE_MCQ_LANGUAGE_SELECTION == "mcq_language_selection"
STATE_POST_LEARN == "post_learn"
STATE_POST_QUIZ == "post_quiz"

Steps ==
    {STATE_MENU, STATE_LEARN_TOPIC, STATE_MCQ_TOPIC,
     STATE_LEARN_LANGUAGE_SELECTION, STATE_MCQ_LANGUAGE_SELECTION,
     STATE_POST_LEARN, STATE_POST_QUIZ}

\* Python's None, and the empty dict
None == "None"
\* a text that is falsy in `if response:` / `if notes_text:` (None or "")
NoText == <<>>
EmptyDict == [key \in {} |-> None]

-----------------------------------------------------------------------------
(* Texts.  A text is an atomic string; the string methods the code applies *)
(* are tabulated on the texts of the model.                                *)

\* the texts a webhook update delivers (data["message"]["text"])
Texts == {"hi edgo", "/START", "1", "2", "PDF", "quiz", "yes", "english", " yes "}
\* the texts delivered when two threads run
FewTexts == {"/START", "1", "PDF", "quiz"}

\* str.strip()
Strip(s) == IF s = " yes " THEN "yes" ELSE s

\* str.lower()
Lower(s) ==
    CASE s = "/START" -> "/start"
      [] s = "PDF" -> "pdf"
      [] s = "Pdf" -> "pdf"
      [] s = "Hi edgo" -> "hi edgo"
      [] s = "Quiz" -> "quiz"
      [] s = "Yes" -> "yes"
      [] s = "English" -> "english"
      [] OTHER -> s

\* str.capitalize(): first character upper case, the rest lower case
Capitalize(s) ==
    CASE s = "hi edgo" -> "Hi edgo"
      [] s = "/START" -> "/start"
      [] s = "PDF" -> "Pdf"
      [] s = "quiz" -> "Quiz"
      [] s = "yes" -> "Yes"
      [] s = "english" -> "English"
      [] OTHER -> s

\* dict.get(key, default)
DictGet(d, key, default) == IF key \in DOMAIN d THEN d[key] ELSE default

\* dict.update(updates)
DictUpdate(d, updates) ==
    [key \in DOMAIN d \cup DOMAIN updates |->
        IF key \in DOMAIN updates THEN updates[key] ELSE d[key]]

\* dict.pop(key, None): the dict without the key
DictPop(d, key) == [x \in DOMAIN d \ {key} |-> d[x]]


-----------------------------------------------------------------------------
(* Generated text.  A generated text is a sequence of characters, so that  *)
(* format_bullet_points and split_message are computed as the code does.   *)

\* chunk_size of split_message (1400 in the program, app.py:251), scaled down
ChunkSize == 3

Whitespace == {" ", "\n", "\t"}

Min(a, b) == IF a < b THEN a ELSE b

\* a slice that leaves out its last character
SliceShort(text, start, end) == SubSeq(text, start + 1, end - 1)

\* text[start:end] with Python's 0-based, end-exclusive indices
Slice(text, start, end) == SubSeq(text, start + 1, end)

\* str.strip()
RECURSIVE LStrip(_)
LStrip(s) ==
    IF s # <<>> /\ Head(s) \in Whitespace THEN LStrip(Tail(s)) ELSE s

RECURSIVE RStrip(_)
RStrip(s) ==
    IF s # <<>> /\ s[Len(s)] \in Whitespace
    THEN RStrip(SubSeq(s, 1, Len(s) - 1)) ELSE s

\* a strip that leaves the trailing whitespace
StripLeft(s) == LStrip(s)

StripSeq(s) == RStrip(LStrip(s))

\* text.rfind(' ', start, end): the highest index in [start, end) holding a
\* space, or -1
RFindSpace(text, start, end) ==
    LET hits == {i \in start..(end - 1) : text[i + 1] = " "}
    IN  IF hits = {} THEN -1 ELSE CHOOSE i \in hits : \A j \in hits : j <= i

\* app.py:259-263, one pass of the loop of split_message: where the chunk that
\* starts at `start` ends
split_end(text, chunk_size, start) ==
    LET end == Min(start + chunk_size, Len(text))
    IN  IF end < Len(text) /\ text[end + 1] \notin Whitespace
        THEN LET last_space == RFindSpace(text, start, end)
             IN  IF last_space # -1 THEN last_space ELSE end
        ELSE end

\* app.py:258-268, the loop of split_message from position `start` on
RECURSIVE split_loop(_, _, _, _)
split_loop(text, chunk_size, start, parts) ==
    IF start < Len(text)
    THEN LET end == split_end(text, chunk_size, start)
             chunk == StripSeq(Slice(text, start, end))
         IN  split_loop(text, chunk_size, end,
                        IF chunk # <<>> THEN Append(parts, chunk) ELSE parts)
    ELSE parts

\* app.py:251-270
split_message(text, chunk_size) == split_loop(text, chunk_size, 0, <<>>)

\* whether the loop of split_message, app.py:258-268, ends when it is at
\* `start`: a pass that sets start = end = start repeats itself for ever
RECURSIVE split_halts(_, _, _)
split_halts(text, chunk_size, start) ==
    IF start < Len(text)
    THEN LET end == split_end(text, chunk_size, start)
         IN  end # start /\ split_halts(text, chunk_size, end)
    ELSE TRUE

\* text.split('\n')
RECURSIVE SplitLines(_, _)
SplitLines(text, line) ==
    IF text = <<>> THEN <<line>>
    ELSE IF Head(text) = "\n" THEN <<line>> \o SplitLines(Tail(text), <<>>)
    ELSE SplitLines(Tail(text), Append(line, Head(text)))

\* '\n'.join(lines)
RECURSIVE JoinLines(_)
JoinLines(lines) ==
    IF Len(lines) = 0 THEN <<>>
    ELSE IF Len(lines) = 1 THEN lines[1]
    ELSE lines[1] \o <<"\n">> \o JoinLines(Tail(lines))

\* app.py:280-283, one line of format_bullet_points (">" stands for the arrow)
format_line(line) ==
    LET stripped == StripSeq(line)
    IN  IF Len(stripped) >= 2 /\ SubSeq(stripped, 1, 2) = <<"*", " ">>
        THEN <<">", " ">> \o SubSeq(stripped, 3, Len(stripped))
        ELSE line

\* app.py:272-284
format_bullet_points(text) ==
    LET lines == SplitLines(text, <<>>)
    IN  JoinLines([i \in 1..Len(lines) |-> format_line(lines[i])])

\* the texts the generation call returns in the model: "* a" and "ab cd"
Responses == {<<"*", " ", "a">>, <<"a", "b", " ", "c", "d">>}

\* "a bcd", a text on which split_message(text, 3) does not return
LongWord == <<"a", " ", "b", "c", "d">>

-----------------------------------------------------------------------------
(* The operations a handler performs, in the order of its code.            *)

Op(op, key, arg, text, dict) ==
    [op |-> op, key |-> key, arg |-> arg, text |-> text, dict |-> dict]

\* send_message(chat_id, get_translated_phrase("English", key).format(arg))
Send(key, arg) == Op("send_message", key, arg, <<>>, EmptyDict)
\* send_message(chat_id, chunk) in the loops over split_message(...)
SendChunk(chunk) == Op("send_chunk", "chunk", None, chunk, EmptyDict)
\* send_document(chat_id, pdf_data, filename, caption=...format(topic))
SendDocument(topic) == Op("send_document", "document_caption", topic, <<>>, EmptyDict)
\* update_user_state(chat_id, updates)
Upd(updates) == Op("update_user_state", None, None, <<>>, updates)
\* set_user_state(chat_id, state)
SetState(state) == Op("set_user_state", None, None, <<>>, state)
\* cleanup_user_state(chat_id)
Cleanup == Op("cleanup_user_state", None, None, <<>>, EmptyDict)
\* state = get_user_state(chat_id), first statement of the handler `handler`
\* that was called for incoming_msg
GetState(handler, incoming_msg) ==
    Op("get_user_state", handler, incoming_msg, <<>>, EmptyDict)
\* response = call_gemini(prompt): the prompt of the handler `handler` is built
\* from topic and language
CallGemini(handler, topic, language) ==
    Op("call_gemini", handler, None, <<>>, [topic |-> topic, language |-> language])
\* split_message(text) in the head of a chunk loop, when it does not return
SplitForever == Op("split_message", None, None, <<>>, EmptyDict)
\* pdf_data = create_pdf_notes(topic, notes_text, language)
CreatePdf(topic) == Op("create_pdf_notes", None, topic, <<>>, EmptyDict)

\* PHRASES["pdf_word"], PHRASES["quiz_word"], PHRASES["yes_word"], app.py:82-84
PHRASES(key) ==
    CASE key = "pdf_word" -> "pdf"
      [] key = "quiz_word" -> "quiz"
      [] key = "yes_word" -> "yes"
      [] OTHER -> key

\* app.py:224-238: the results get_translated_phrase(language, key) can have.
\* For English the phrase itself; otherwise what the translation service
\* returns ("<key>_translated"), or the phrase itself when the call fails.
get_translated_phrase(language, key) ==
    IF Lower(language) = "english"
    THEN {PHRASES(key)}
    ELSE {PHRASES(key), key \o "_translated"}

\* the sends of the chunks of `text`, app.py:428-432 and app.py:522-526
chunk_sends(text) ==
    IF split_halts(text, ChunkSize, 0)
    THEN LET parts == split_message(text, ChunkSize)
         IN  [i \in 1..Len(parts) |-> SendChunk(parts[i])]
    ELSE <<SplitForever>>

\* app.py:501, handle_mcq_request(chat_id) begins by reading the session
handle_mcq_request ==
    <<GetState("mcq", None)>>

\* a quiz handler that always asks for the default language
mcq_request_call_default_language(state) ==
    LET topic == DictGet(state, "topic", None)
    IN  <<Send("processing_quiz", None), CallGemini("mcq", topic, "English")>>

\* app.py:503-516, handle_mcq_request from the session read to the call
mcq_request_call(state) ==
    LET topic == DictGet(state, "topic", None)
        language == DictGet(state, "language", "English")
    IN  <<Send("processing_quiz", None), CallGemini("mcq", topic, language)>>

\* a quiz handler that keeps the session when the generation fails
mcq_request_result_keeping(response) ==
    IF response # NoText
    THEN <<Send("quiz_intro", None)>>
         \o chunk_sends(response)
         \o <<Send("post_quiz_prompt", None), Upd([step |-> STATE_POST_QUIZ])>>
    ELSE <<Send("quiz_error", None)>>

\* app.py:518-532, handle_mcq_request after the generation call
mcq_request_result(response) ==
    IF response # NoText
    THEN <<Send("quiz_intro", None)>>
         \o chunk_sends(response)
         \o <<Send("post_quiz_prompt", None), Upd([step |-> STATE_POST_QUIZ])>>
    ELSE <<Send("quiz_error", None), Cleanup>>

\* app.py:399, handle_learn_topic_request(chat_id) begins by reading the session
handle_learn_topic_request ==
    <<GetState("learn", None)>>

\* app.py:404-420, handle_learn_topic_request from the session read to the call
learn_topic_request_call(state) ==
    LET topic == DictGet(state, "topic", None)
        language == DictGet(state, "language", "English")
    IN  <<Send("processing_request", None), CallGemini("learn", topic, language)>>

\* a learn handler that sends the follow-up prompt before the chunks
learn_topic_request_result_prompt_first(response, topic) ==
    IF response # NoText
    THEN <<Upd([full_notes |-> response]), Send("notes_intro", topic),
           Send("post_learn_prompt", None)>>
         \o chunk_sends(format_bullet_points(response))
         \o <<Upd([step |-> STATE_POST_LEARN])>>
    ELSE <<Send("fetch_error", None), Cleanup>>

\* app.py:422-438, handle_learn_topic_request after the generation call
learn_topic_request_result(response, topic) ==
    IF response # NoText
    THEN <<Upd([full_notes |-> response]), Send("notes_intro", topic)>>
         \o chunk_sends(format_bullet_points(response))
         \o <<Send("post_learn_prompt", None), Upd([step |-> STATE_POST_LEARN])>>
    ELSE <<Send("fetch_error", None), Cleanup>>

\* app.py:451-463 and app.py:482-494: the PDF branch of the post handlers
pdf_branch(state) ==
    LET notes_text == DictGet(state, "full_notes", NoText)
        topic == DictGet(state, "topic", "notes")
    IN  IF notes_text # NoText
        THEN <<Send("download_success", None), CreatePdf(topic)>>
        ELSE <<Send("no_notes", None)>>

\* a PDF branch that sends the document without testing pdf_data
pdf_result_unchecked(pdf_data, topic) ==
    <<SendDocument(topic)>>

\* app.py:457-461 and app.py:488-492: after create_pdf_notes returned
pdf_result(pdf_data, topic) ==
    IF pdf_data
    THEN <<SendDocument(topic)>>
    ELSE <<Send("pdf_font_error", None)>>

\* app.py:441, handle_post_learn_request(chat_id, incoming_msg)
handle_post_learn_request(incoming_msg) ==
    <<GetState("post_learn", incoming_msg)>>

\* app.py:443-472, handle_post_learn_request after reading the session
post_learn_request(state, incoming_msg, pdf_word, quiz_word) ==
    IF Lower(incoming_msg) = pdf_word
    THEN pdf_branch(state) \o <<Cleanup>>
    ELSE IF Lower(incoming_msg) = quiz_word
    THEN handle_mcq_request
    ELSE <<Send("reply_pdf_or_quiz", None), Cleanup>>

\* app.py:475, handle_post_quiz_request(chat_id, incoming_msg)
handle_post_quiz_request(incoming_msg) ==
    <<GetState("post_quiz", incoming_msg)>>

\* a post-quiz handler that closes the conversation when the notes are absent
post_quiz_request_closing(state, incoming_msg, yes_word) ==
    (IF Lower(incoming_msg) = yes_word /\ DictGet(state, "full_notes", NoText) # NoText
     THEN pdf_branch(state)
     ELSE <<Send("end_conversation", None)>>)
    \o <<Cleanup>>

\* app.py:477-498, handle_post_quiz_request after reading the session
post_quiz_request(state, incoming_msg, yes_word) ==
    (IF Lower(incoming_msg) = yes_word
     THEN pdf_branch(state)
     ELSE <<Send("end_conversation", None)>>)
    \o <<Cleanup>>

\* a menu that moves to the topic step of the other mode
handle_menu_selection_swapped(incoming_msg) ==
    IF incoming_msg = "1"
    THEN <<Upd([step |-> STATE_MCQ_TOPIC]), Send("learn_prompt", None)>>
    ELSE IF incoming_msg = "2"
    THEN <<Upd([step |-> STATE_LEARN_TOPIC]), Send("mcq_prompt", None)>>
    ELSE <<Send("invalid_option", None)>>

\* app.py:387-396
handle_menu_selection(incoming_msg) ==
    IF incoming_msg = "1"
    THEN <<Upd([step |-> STATE_LEARN_TOPIC]), Send("learn_prompt", None)>>
    ELSE IF incoming_msg = "2"
    THEN <<Upd([step |-> STATE_MCQ_TOPIC]), Send("mcq_prompt", None)>>
    ELSE <<Send("invalid_option", None)>>

\* app.py:335, the greeting trigger
is_greeting(incoming_msg) ==
    Lower(incoming_msg) = "/start" \/ Lower(incoming_msg) = "hi edgo"

\* app.py:330-384
handle_message(incoming_msg, state) ==
    LET step == DictGet(state, "step", None)
    IN  IF is_greeting(incoming_msg)
        THEN <<Send("welcome", None), SetState([step |-> STATE_MENU])>>
        ELSE IF step = STATE_MENU
        THEN handle_menu_selection(incoming_msg)
        ELSE IF step = STATE_LEARN_TOPIC
        THEN <<Upd([topic |-> Strip(incoming_msg)]),
               Send("getting_content_message", Strip(incoming_msg)),
               Send("language_prompt", None),
               Upd([step |-> STATE_LEARN_LANGUAGE_SELECTION])>>
        ELSE IF step = STATE_LEARN_LANGUAGE_SELECTION
        THEN <<Upd([language |-> Capitalize(Strip(incoming_msg))])>>
             \o handle_learn_topic_request
        ELSE IF step = STATE_POST_LEARN
        THEN handle_post_learn_request(incoming_msg)
        ELSE IF step = STATE_POST_QUIZ
        THEN handle_post_quiz_request(incoming_msg)
        ELSE IF step = STATE_MCQ_TOPIC
        THEN <<Upd([topic |-> Strip(incoming_msg)]),
               Send("quiz_getting_content", Strip(incoming_msg)),
               Send("language_prompt", None),
               Upd([step |-> STATE_MCQ_LANGUAGE_SELECTION])>>
        ELSE IF step = STATE_MCQ_LANGUAGE_SELECTION
        THEN <<Upd([language |-> Capitalize(Strip(incoming_msg))])>>
             \o handle_mcq_request
        ELSE <<Send("unknown_command", None)>>

-----------------------------------------------------------------------------
(* The session store, app.py:119-140.  Each operation is one critical      *)
(* section of user_state_lock and is one atomic step of the model.         *)

\* app.py:125-128
get_user_state(store, chat_id) ==
    IF chat_id \in DOMAIN store THEN store[chat_id] ELSE EmptyDict

\* a set_user_state that merges into the existing session
set_user_state_merging(store, chat_id, state) ==
    [c \in DOMAIN store \cup {chat_id} |->
        IF c = chat_id
        THEN DictUpdate(IF chat_id \in DOMAIN store THEN store[chat_id] ELSE EmptyDict,
                        state)
        ELSE store[c]]

\* app.py:130-133
set_user_state(store, chat_id, state) ==
    [c \in DOMAIN store \cup {chat_id} |->
        IF c = chat_id THEN state ELSE store[c]]

\* app.py:135-140
update_user_state(store, chat_id, updates) ==
    set_user_state(store, chat_id,
                   DictUpdate(get_user_state(store, chat_id), updates))

\* a cleanup that clears the whole store
cleanup_user_state_clearing(store, chat_id) == EmptyDict

\* app.py:119-123
cleanup_user_state(store, chat_id) == DictPop(store, chat_id)

-----------------------------------------------------------------------------
(* Pool threads.                                                           *)
(*                                                                         *)
(* What a thread will do is its continuation k.  The other fields of its   *)
(* frame only record what its task was and did: the message and the        *)
(* session it was dispatched on (the arguments incoming_msg and state of   *)
(* handle_message), the localized words, the prompt's topic and language,  *)
(* the response, the sends, whether a send failed, the number of           *)
(* generation calls, the store at the time of the dispatch and the number  *)
(* of exceptions raised.  They are never read by an action and are kept    *)
(* only while `recording` holds.                                           *)

\* the frame of a thread that runs no task
Idle ==
    [busy |-> FALSE, k |-> <<>>, chat_id |-> 0, incoming_msg |-> None,
     state |-> EmptyDict, words |-> <<>>, prompt |-> EmptyDict,
     response |-> NoText, pdf_data |-> <<>>, sent |-> <<>>, failed |-> FALSE,
     calls |-> 0, store |-> EmptyDict, raised |-> 0]

\* the frame with its record changed to `rec` when the run records
Rec(frame, rec) == IF recording THEN rec ELSE frame

\* the counters of the webhook route when the run does not count
WebhookOff ==
    [on |-> FALSE, received |-> 0, acked |-> 0, submitted |-> 0, started |-> 0,
     last |-> <<>>]

InitStore ==
    /\ user_state = EmptyDict
    /\ queue = <<>>
    /\ thread = [t \in Threads |-> Idle]
    /\ user_state_lock = 0
    /\ call = <<>>
    /\ webhook = WebhookOff
    /\ gemini = <<>>
    /\ split = <<>>

\* request.get_json() of an update with a message that has a text
\* `message` and `has_text` say whether the body has a "message" and the
\* message a "text"
Update(chat_id, text) ==
    [body |-> TRUE, message |-> TRUE, has_text |-> TRUE,
     chat_id |-> chat_id, text |-> text]

\* updates without a body, without a message and without a text in the message
MalformedUpdates ==
    {[body |-> FALSE, message |-> FALSE, has_text |-> FALSE, chat_id |-> 0, text |-> ""],
     [body |-> TRUE, message |-> FALSE, has_text |-> FALSE, chat_id |-> 0, text |-> ""],
     [body |-> TRUE, message |-> TRUE, has_text |-> FALSE, chat_id |-> 1, text |-> ""]}

\* a test of the update that does not look for the text
valid_update_without_text(data) ==
    data.body /\ data.message

\* app.py:561, the negation of
\* `not data or "message" not in data or "text" not in data["message"]`
valid_update(data) ==
    data.body /\ data.message /\ data.has_text

\* app.py:556-585: the route returns "ok" for every update; a well-formed
\* update is submitted to the pool first, and the route never waits for it
telegram_webhook(data) ==
    /\ Len(queue) < MaxQueue
    /\ webhook.on => webhook.received < MaxUpdates
    /\ queue' = IF valid_update(data)
                THEN Append(queue, [chat_id |-> data.chat_id,
                                    incoming_msg |-> Strip(data.text)])
                ELSE queue
    /\ webhook' = IF webhook.on
                  THEN [webhook EXCEPT
                           !.received = @ + 1,
                           !.acked = @ + 1,
                           !.submitted = IF valid_update(data) THEN @ + 1 ELSE @,
                           !.last = <<data.body, data.message, data.has_text>>]
                  ELSE webhook
    /\ UNCHANGED <<user_state, thread, recording, user_state_lock, call,
                 gemini, split>>

\* app.py:537-541, a pool thread takes the next task: it reads the session and
\* enters handle_message
process_user_message(t) ==
    /\ ~thread[t].busy
    /\ queue # <<>>
    /\ LET task == Head(queue)
           state == get_user_state(user_state, task.chat_id)
           frame == [Idle EXCEPT !.busy = TRUE,
                                 !.chat_id = task.chat_id,
                                 !.k = handle_message(task.incoming_msg, state)]
       IN  thread' = [thread EXCEPT ![t] =
               Rec(frame, [frame EXCEPT !.incoming_msg = task.incoming_msg,
                                        !.state = state,
                                        !.store = user_state])]
    /\ queue' = Tail(queue)
    /\ webhook' = IF webhook.on THEN [webhook EXCEPT !.started = @ + 1] ELSE webhook
    /\ UNCHANGED <<user_state, recording, user_state_lock, call, gemini, split>>

\* the operation thread t executes next
Next_op(t) == Head(thread[t].k)

At(t, op) == thread[t].busy /\ thread[t].k # <<>> /\ Next_op(t).op = op

\* thread t goes on with the continuation k
Continue(t, k) == [thread[t] EXCEPT !.k = k]

\* what a send appends to the thread's record of its sends
Sent(t, kind) ==
    [to |-> thread[t].chat_id, kind |-> kind, key |-> Next_op(t).key,
     arg |-> Next_op(t).arg, text |-> Next_op(t).text]

\* the threads after a send by t with result ok
AfterSend(t, kind, ok, k) ==
    [thread EXCEPT ![t] =
        Rec(Continue(t, k),
            [Continue(t, k) EXCEPT !.sent = Append(@, Sent(t, kind)),
                                   !.failed = @ \/ ~ok])]

\* app.py:144-155, a send whose result the handler ignores
send_message(t) ==
    /\ At(t, "send_message")
    /\ \E ok \in BOOLEAN : thread' = AfterSend(t, "message", ok, Tail(thread[t].k))
    /\ UNCHANGED <<user_state, queue, recording, user_state_lock, call,
                 webhook, gemini, split>>

\* app.py:428-432 and 522-526, the send of one chunk: a failed send ends the
\* handler after cleanup_user_state
send_chunk(t) ==
    /\ At(t, "send_chunk")
    /\ \E ok \in BOOLEAN :
         thread' = AfterSend(t, "message", ok,
                             IF ok THEN Tail(thread[t].k) ELSE <<Cleanup>>)
    /\ UNCHANGED <<user_state, queue, recording, user_state_lock, call,
                 webhook, gemini, split>>

\* app.py:157-174
send_document(t) ==
    /\ At(t, "send_document")
    /\ \E ok \in BOOLEAN : thread' = AfterSend(t, "document", ok, Tail(thread[t].k))
    /\ UNCHANGED <<user_state, queue, recording, user_state_lock, call,
                 webhook, gemini, split>>

\* a handler's call of update_user_state
do_update_user_state(t) ==
    /\ At(t, "update_user_state")
    /\ user_state' = update_user_state(user_state, thread[t].chat_id, Next_op(t).dict)
    /\ thread' = [thread EXCEPT ![t].k = Tail(@)]
    /\ UNCHANGED <<queue, recording, user_state_lock, call,
                 webhook, gemini, split>>

\* a handler's call of set_user_state
do_set_user_state(t) ==
    /\ At(t, "set_user_state")
    /\ user_state' = set_user_state(user_state, thread[t].chat_id, Next_op(t).dict)
    /\ thread' = [thread EXCEPT ![t].k = Tail(@)]
    /\ UNCHANGED <<queue, recording, user_state_lock, call,
                 webhook, gemini, split>>

\* a handler's call of cleanup_user_state
do_cleanup_user_state(t) ==
    /\ At(t, "cleanup_user_state")
    /\ user_state' = cleanup_user_state(user_state, thread[t].chat_id)
    /\ thread' = [thread EXCEPT ![t].k = Tail(@)]
    /\ UNCHANGED <<queue, recording, user_state_lock, call,
                 webhook, gemini, split>>

\* the lower-cased localized words a post handler compares the message with
localized(language, key) ==
    {Lower(w) : w \in get_translated_phrase(language, key)}

\* state = get_user_state(chat_id) at the head of a handler (app.py:404, 443,
\* 477, 503) and the handler's code up to its next operation
do_get_user_state(t) ==
    /\ At(t, "get_user_state")
    /\ LET state == get_user_state(user_state, thread[t].chat_id)
           language == DictGet(state, "language", "English")
           msg == Next_op(t).arg
           handler == Next_op(t).key
           rest == Tail(thread[t].k)
       IN  \/ /\ handler = "learn"
              /\ thread' = [thread EXCEPT ![t].k = learn_topic_request_call(state) \o rest]
           \/ /\ handler = "mcq"
              /\ thread' = [thread EXCEPT ![t].k = mcq_request_call(state) \o rest]
           \/ /\ handler = "post_learn"
              /\ \E pdf_word \in localized(language, "pdf_word"),
                    quiz_word \in localized(language, "quiz_word") :
                   LET k == post_learn_request(state, msg, pdf_word, quiz_word) \o rest
                   IN  thread' = [thread EXCEPT ![t] =
                           Rec(Continue(t, k),
                               [Continue(t, k) EXCEPT !.words = <<pdf_word, quiz_word>>])]
           \/ /\ handler = "post_quiz"
              /\ \E yes_word \in localized(language, "yes_word") :
                   LET k == post_quiz_request(state, msg, yes_word) \o rest
                   IN  thread' = [thread EXCEPT ![t] =
                           Rec(Continue(t, k),
                               [Continue(t, k) EXCEPT !.words = <<yes_word>>])]
    /\ UNCHANGED <<user_state, queue, recording, user_state_lock, call,
                 webhook, gemini, split>>

\* app.py:420 and 516: the thread enters call_gemini; the request is in flight
call_gemini(t) ==
    /\ At(t, "call_gemini")
    /\ LET k == <<[Next_op(t) EXCEPT !.op = "gemini_response"]>> \o Tail(thread[t].k)
       IN  thread' = [thread EXCEPT ![t] =
               Rec(Continue(t, k), [Continue(t, k) EXCEPT !.calls = @ + 1,
                                                          !.prompt = Next_op(t).dict])]
    /\ UNCHANGED <<user_state, queue, recording, user_state_lock, call,
                 webhook, gemini, split>>

\* app.py:176-219: call_gemini returns one of the texts `responses`
gemini_returns(t, responses) ==
    /\ At(t, "gemini_response")
    /\ \E response \in responses :
         LET k == (IF Next_op(t).key = "learn"
                   THEN learn_topic_request_result(response, Next_op(t).dict.topic)
                   ELSE mcq_request_result(response))
                  \o Tail(thread[t].k)
         IN  thread' = [thread EXCEPT ![t] =
                 Rec(Continue(t, k), [Continue(t, k) EXCEPT !.response = response])]
    /\ UNCHANGED <<user_state, queue, recording, user_state_lock, call,
                 webhook, gemini, split>>

\* app.py:176-219: call_gemini returns the generated text or None
gemini_response(t) == gemini_returns(t, Responses \cup {NoText})

\* app.py:258-268: the thread is in the loop of split_message on a text on
\* which the loop does not end; a pass changes nothing
split_message_loop(t) ==
    /\ At(t, "split_message")
    /\ UNCHANGED vars

\* app.py:286-324: create_pdf_notes returns the document or None
create_pdf_notes(t) ==
    /\ At(t, "create_pdf_notes")
    /\ \E pdf_data \in BOOLEAN :
         LET k == pdf_result(pdf_data, Next_op(t).arg) \o Tail(thread[t].k)
         IN  thread' = [thread EXCEPT ![t] =
                 Rec(Continue(t, k), [Continue(t, k) EXCEPT !.pdf_data = <<pdf_data>>])]
    /\ UNCHANGED <<user_state, queue, recording, user_state_lock, call,
                 webhook, gemini, split>>

\* a wrapper that sends the notice and leaves the session in the store
safe_user_operation_keeping ==
    <<Send("connection_error", None)>>

\* app.py:111-116, the except clause of the wrapper of safe_user_operation
safe_user_operation ==
    <<Op("cleanup_user_state", "except", None, <<>>, EmptyDict),
      Send("connection_error", None)>>

\* thread t is in the body of a handler, not in the except clause of a wrapper
InHandler(t) ==
    /\ thread[t].busy
    /\ thread[t].k # <<>>
    /\ Next_op(t).key \notin {"except", "connection_error"}

\* app.py:108-117: the handler raises instead of performing its next
\* operation.  The wrapper of the innermost handler catches the exception and
\* returns None; every caller of a handler returns right after the call
\* (app.py:341-380, 468), so nothing of the task is left but the except clause
handler_raises(t) ==
    /\ InHandler(t)
    /\ thread' = [thread EXCEPT ![t] =
           Rec(Continue(t, safe_user_operation),
               [Continue(t, safe_user_operation) EXCEPT !.raised = @ + 1])]
    /\ UNCHANGED <<user_state, queue, recording, user_state_lock, call,
                 webhook, gemini, split>>

\* process_user_message returns; the thread goes back to the pool
task_done(t) ==
    /\ thread[t].busy
    /\ thread[t].k = <<>>
    /\ thread' = [thread EXCEPT ![t] = Idle]
    /\ UNCHANGED <<user_state, queue, recording, user_state_lock, call,
                 webhook, gemini, split>>

\* the steps of the program with the given chat ids, texts and pool threads
NextOf(users, texts, threads) ==
    \/ \E chat_id \in users, text \in texts : telegram_webhook(Update(chat_id, text))
    \/ \E t \in threads : process_user_message(t)
    \/ \E t \in threads : send_message(t)
    \/ \E t \in threads : send_chunk(t)
    \/ \E t \in threads : send_document(t)
    \/ \E t \in threads : do_update_user_state(t)
    \/ \E t \in threads : do_set_user_state(t)
    \/ \E t \in threads : do_cleanup_user_state(t)
    \/ \E t \in threads : do_get_user_state(t)
    \/ \E t \in threads : call_gemini(t)
    \/ \E t \in threads : gemini_response(t)
    \/ \E t \in threads : create_pdf_notes(t)
    \/ \E t \in threads : task_done(t)

-----------------------------------------------------------------------------
(* The store operations line by line, app.py:119-140: every caller runs    *)
(* one operation; the statements inside `with user_state_lock:` are        *)
(* separate steps.                                                         *)

Callers == 1..NumCallers

Keys == {"step", "topic", "language", "full_notes"}

\* the value caller c writes
ValueOf(c) == IF c = 1 THEN "v1" ELSE IF c = 2 THEN "v2" ELSE IF c = 3 THEN "v3" ELSE "v4"

\* the calls a caller can make on the session of chat id 1
Calls(c) ==
    {[op |-> "update_user_state", pc |-> "with", dict |-> [x \in {key} |-> ValueOf(c)]] :
        key \in Keys}
    \cup {[op |-> "set_user_state", pc |-> "with", dict |-> [step |-> ValueOf(c)]],
          [op |-> "cleanup_user_state", pc |-> "with", dict |-> EmptyDict],
          [op |-> "get_user_state", pc |-> "with", dict |-> EmptyDict]}

StoreInit ==
    /\ user_state \in {EmptyDict, [c \in {1} |-> [step |-> STATE_MENU]]}
    /\ user_state_lock = 0
    /\ call \in [Callers -> UNION {Calls(c) : c \in Callers}]
    /\ \A c \in Callers : call[c] \in Calls(c)
    /\ queue = <<>>
    /\ thread = [t \in Threads |-> Idle]
    /\ recording = FALSE
    /\ webhook = WebhookOff
    /\ gemini = <<>>
    /\ split = <<>>

Goto(c, pc) == call' = [call EXCEPT ![c].pc = pc]

\* a lock that excludes nobody
lock_is_never_held(c) == TRUE

\* `with user_state_lock:` is entered when no other caller is inside
lock_is_free(c) == user_state_lock = 0

\* app.py:121, 127, 132, 137: entering `with user_state_lock:`
acquire(c) ==
    /\ call[c].pc = "with"
    /\ lock_is_free(c)
    /\ user_state_lock' = c
    /\ Goto(c, IF call[c].op = "update_user_state" THEN "if" ELSE "body")
    /\ UNCHANGED <<user_state, queue, thread, recording,
                 webhook, gemini, split>>

\* app.py:138-139: if chat_id not in user_state: user_state[chat_id] = {}
update_if(c) ==
    /\ call[c].pc = "if"
    /\ Goto(c, IF 1 \notin DOMAIN user_state THEN "create" ELSE "update")
    /\ UNCHANGED <<user_state, user_state_lock, queue, thread, recording,
                 webhook, gemini, split>>

update_create(c) ==
    /\ call[c].pc = "create"
    /\ user_state' = set_user_state(user_state, 1, EmptyDict)
    /\ Goto(c, "update")
    /\ UNCHANGED <<user_state_lock, queue, thread, recording,
                 webhook, gemini, split>>

\* app.py:140: user_state[chat_id].update(updates)
update_update(c) ==
    /\ call[c].pc = "update"
    /\ user_state' = [user_state EXCEPT ![1] = DictUpdate(@, call[c].dict)]
    /\ Goto(c, "release")
    /\ UNCHANGED <<user_state_lock, queue, thread, recording,
                 webhook, gemini, split>>

\* app.py:122, 128, 133: the body of the other three operations
body(c) ==
    /\ call[c].pc = "body"
    /\ user_state' =
         CASE call[c].op = "set_user_state" -> set_user_state(user_state, 1, call[c].dict)
           [] call[c].op = "cleanup_user_state" -> cleanup_user_state(user_state, 1)
           [] OTHER -> user_state
    /\ call' = [call EXCEPT ![c].pc = "release",
                            ![c].dict = IF call[c].op = "get_user_state"
                                        THEN get_user_state(user_state, 1) ELSE @]
    /\ UNCHANGED <<user_state_lock, queue, thread, recording,
                 webhook, gemini, split>>

\* leaving `with user_state_lock:`
release(c) ==
    /\ call[c].pc = "release"
    /\ user_state_lock' = IF user_state_lock = c THEN 0 ELSE user_state_lock
    /\ Goto(c, "done")
    /\ UNCHANGED <<user_state, queue, thread, recording,
                 webhook, gemini, split>>

StoreNext ==
    \/ \E c \in Callers : acquire(c)
    \/ \E c \in Callers : update_if(c)
    \/ \E c \in Callers : update_create(c)
    \/ \E c \in Callers : update_update(c)
    \/ \E c \in Callers : body(c)
    \/ \E c \in Callers : release(c)

StoreSpec == StoreInit /\ [][StoreNext]_vars

-----------------------------------------------------------------------------
(* One call of call_gemini, app.py:176-219, statement by statement.  The   *)
(* server's answers to the successive requests are a script fixed at the   *)
(* start: "429" (rate limit), "ok" (a 2xx answer with the generated text), *)
(* "malformed" (a 2xx answer without it), "error" (any other status) and   *)
(* "timeout" (requests.post raises after `timeout` seconds).               *)

\* max_retries, app.py:188
max_retries == 3
\* the cap of the delay, app.py:197
DelayCap == 10

Outcomes == {"429", "ok", "malformed", "error", "timeout"}

RECURSIVE Scripts(_)
Scripts(n) ==
    IF n = 0 THEN {<<>>}
    ELSE {<<o>> \o rest : o \in Outcomes, rest \in Scripts(n - 1)}

RECURSIVE Pow2(_)
Pow2(n) == IF n = 0 THEN 1 ELSE 2 * Pow2(n - 1)

GeminiInit ==
    /\ gemini \in {[pc |-> "while", retries |-> 0, requests |-> 0, delays |-> <<>>,
                    script |-> script, seen |-> <<>>, response |-> None,
                    result |-> "pending"] : script \in Scripts(ScriptLen)}
    /\ user_state = EmptyDict
    /\ queue = <<>>
    /\ thread = [t \in Threads |-> Idle]
    /\ recording = FALSE
    /\ user_state_lock = 0
    /\ call = <<>>
    /\ webhook = WebhookOff
    /\ split = <<>>

\* a loop that allows one attempt more
may_retry_once_more(retries) == retries <= max_retries

\* app.py:189, the test of the while loop
may_retry(retries) == retries < max_retries

\* a test that takes every failure status for the rate limit
rate_limited_or_error(response) == response \in {"429", "error"}

\* app.py:196
rate_limited(response) == response = "429"

\* app.py:189: while retries < max_retries
gemini_while ==
    /\ gemini.pc = "while"
    /\ gemini' = [gemini EXCEPT !.pc = IF may_retry(gemini.retries) THEN "post"
                                                                    ELSE "after"]
    /\ UNCHANGED <<user_state, queue, thread, recording, user_state_lock, call,
                   webhook, split>>

\* app.py:190-195: response = requests.post(..., timeout=timeout); a timeout
\* raises, and the exception leaves the loop for the except clause, app.py:217
gemini_post ==
    /\ gemini.pc = "post"
    /\ gemini.script # <<>>
    /\ LET outcome == Head(gemini.script)
       IN  gemini' = [gemini EXCEPT
               !.requests = @ + 1,
               !.script = Tail(@),
               !.seen = Append(@, outcome),
               !.response = IF outcome = "timeout" THEN @ ELSE outcome,
               !.pc = IF outcome = "timeout" THEN "except" ELSE "status"]
    /\ UNCHANGED <<user_state, queue, thread, recording, user_state_lock, call,
                   webhook, split>>

\* app.py:196-203: a rate limit sleeps min(2**retries, 10) and counts a retry;
\* any other answer goes through raise_for_status and leaves the loop
gemini_status ==
    /\ gemini.pc = "status"
    /\ gemini' =
         IF rate_limited(gemini.response)
         THEN [gemini EXCEPT !.delays = Append(@, Min(Pow2(gemini.retries), DelayCap)),
                             !.retries = @ + 1,
                             !.pc = "while"]
         ELSE [gemini EXCEPT !.pc = IF gemini.response \in {"ok", "malformed"}
                                    THEN "after" ELSE "except"]
    /\ UNCHANGED <<user_state, queue, thread, recording, user_state_lock, call,
                   webhook, split>>

\* app.py:205-207: if retries == max_retries: return None
gemini_after ==
    /\ gemini.pc = "after"
    /\ gemini' = IF gemini.retries = max_retries
                 THEN [gemini EXCEPT !.result = None, !.pc = "done"]
                 ELSE [gemini EXCEPT !.pc = "json"]
    /\ UNCHANGED <<user_state, queue, thread, recording, user_state_lock, call,
                   webhook, split>>

\* app.py:209-216: the text of the first candidate, or None when the answer
\* has not the expected format
gemini_json ==
    /\ gemini.pc = "json"
    /\ gemini' = [gemini EXCEPT !.result = IF gemini.response = "ok" THEN "text"
                                                                     ELSE None,
                                !.pc = "done"]
    /\ UNCHANGED <<user_state, queue, thread, recording, user_state_lock, call,
                   webhook, split>>

\* app.py:217-219: except Exception: return None
gemini_except ==
    /\ gemini.pc = "except"
    /\ gemini' = [gemini EXCEPT !.result = None, !.pc = "done"]
    /\ UNCHANGED <<user_state, queue, thread, recording, user_state_lock, call,
                   webhook, split>>

GeminiNext ==
    \/ gemini_while
    \/ gemini_post
    \/ gemini_status
    \/ gemini_after
    \/ gemini_json
    \/ gemini_except

GeminiSpec == GeminiInit /\ [][GeminiNext]_vars

-----------------------------------------------------------------------------
(* One call of split_message, app.py:251-270, pass by pass.                *)

SplitAlphabet == {"a", " ", "\n", "\t"}

RECURSIVE SplitTexts(_)
SplitTexts(n) ==
    IF n = 0 THEN {<<>>}
    ELSE SplitTexts(n - 1) \cup
         {Append(text, c) : text \in {u \in SplitTexts(n - 1) : Len(u) = n - 1},
                            c \in SplitAlphabet}

SplitInit ==
    /\ split \in {[text |-> text, chunk_size |-> chunk_size, start |-> 0,
                   parts |-> <<>>, passes |-> 0, pc |-> "while"] :
                     text \in SplitTexts(MaxText), chunk_size \in 1..MaxChunk}
    /\ user_state = EmptyDict
    /\ queue = <<>>
    /\ thread = [t \in Threads |-> Idle]
    /\ recording = FALSE
    /\ user_state_lock = 0
    /\ call = <<>>
    /\ webhook = WebhookOff
    /\ gemini = <<>>

\* app.py:258-268, one pass of the while loop
split_pass ==
    /\ split.pc = "while"
    /\ split.start < Len(split.text)
    /\ split.passes < MaxPasses
    /\ LET end == split_end(split.text, split.chunk_size, split.start)
           chunk == StripSeq(Slice(split.text, split.start, end))
       IN  split' = [split EXCEPT
               !.parts = IF chunk # <<>> THEN Append(@, chunk) ELSE @,
               !.start = end,
               !.passes = @ + 1]
    /\ UNCHANGED <<user_state, queue, thread, recording, user_state_lock, call,
                   webhook, gemini>>

\* app.py:258, 270: the loop ends and the parts are returned
split_return ==
    /\ split.pc = "while"
    /\ ~(split.start < Len(split.text))
    /\ split' = [split EXCEPT !.pc = "done"]
    /\ UNCHANGED <<user_state, queue, thread, recording, user_state_lock, call,
                   webhook, gemini>>

SplitNext ==
    \/ split_pass
    \/ split_return

SplitSpec == SplitInit /\ [][SplitNext]_vars

-----------------------------------------------------------------------------
(* The specifications of the conversation.                                 *)

\* Two pool threads serve one user
Init == InitStore /\ recording = FALSE
Next == NextOf(Users, FewTexts, Threads)
Spec == Init /\ [][Next]_vars

\* One pool thread serves one user, message after message, and records
SeqInit == InitStore /\ recording = TRUE
SeqNext == NextOf(Users, Texts, {1})
SeqSpec == SeqInit /\ [][SeqNext]_vars

(* The pool and the webhook route: two pool threads serve one user, the    *)
(* route counts what it receives, and updates can be malformed.  The       *)
(* conversation is either new or waits for the language of a learn         *)
(* request.  The executor runs every thread that has something to do, and  *)
(* every external call returns: each thread's steps are weakly fair.       *)

PoolTexts == {"/START", "1"}

PoolInit ==
    /\ user_state \in {EmptyDict,
                       [c \in {1} |-> [step |-> STATE_LEARN_LANGUAGE_SELECTION,
                                       topic |-> "1"]]}
    /\ queue = <<>>
    /\ thread = [t \in Threads |-> Idle]
    /\ recording = FALSE
    /\ user_state_lock = 0
    /\ call = <<>>
    /\ webhook = [WebhookOff EXCEPT !.on = TRUE]
    /\ gemini = <<>>
    /\ split = <<>>

\* the steps of pool thread t
ThreadStep(t) ==
    \/ process_user_message(t)
    \/ send_message(t)
    \/ send_chunk(t)
    \/ do_update_user_state(t)
    \/ do_set_user_state(t)
    \/ do_cleanup_user_state(t)
    \/ do_get_user_state(t)
    \/ call_gemini(t)
    \/ gemini_returns(t, {LongWord, <<"*", " ", "a">>, NoText})
    \/ split_message_loop(t)
    \/ task_done(t)

PoolNext ==
    \/ \E chat_id \in Users, text \in PoolTexts : telegram_webhook(Update(chat_id, text))
    \/ \E data \in MalformedUpdates : telegram_webhook(data)
    \/ \E t \in Threads : ThreadStep(t)

PoolSpec ==
    PoolInit /\ [][PoolNext]_vars /\ \A t \in Threads : WF_vars(ThreadStep(t))

\* One pool thread serves two users, message after message, and records;
\* a handler can raise at any of its operations
ExcUsers == {1, 2}
ExcTexts == {"/START", "1", "PDF"}
ExcInit == InitStore /\ recording = TRUE
ExcNext ==
    \/ NextOf(ExcUsers, ExcTexts, {1})
    \/ \E t \in {1} : handler_raises(t)
ExcSpec == ExcInit /\ [][ExcNext]_vars

\* Two pool threads serve one user and record, for the updates the route
\* counts; the conversation is either new or waits for the language of a
\* learn request
RaceTexts == {"/START", "1"}

RaceInit ==
    /\ user_state \in {EmptyDict,
                       [c \in {1} |-> [step |-> STATE_LEARN_LANGUAGE_SELECTION,
                                       topic |-> "1"]]}
    /\ queue = <<>>
    /\ thread = [t \in Threads |-> Idle]
    /\ recording = TRUE
    /\ user_state_lock = 0
    /\ call = <<>>
    /\ webhook = [WebhookOff EXCEPT !.on = TRUE]
    /\ gemini = <<>>
    /\ split = <<>>

RaceNext ==
    \/ \E chat_id \in Users, text \in RaceTexts : telegram_webhook(Update(chat_id, text))
    \/ \E t \in Threads : process_user_message(t)
    \/ \E t \in Threads : send_message(t)
    \/ \E t \in Threads : send_chunk(t)
    \/ \E t \in Threads : do_update_user_state(t)
    \/ \E t \in Threads : do_set_user_state(t)
    \/ \E t \in Threads : do_cleanup_user_state(t)
    \/ \E t \in Threads : do_get_user_state(t)
    \/ \E t \in Threads : call_gemini(t)
    \/ \E t \in Threads : gemini_response(t)
    \/ \E t \in Threads : task_done(t)

RaceSpec == RaceInit /\ [][RaceNext]_vars

\* Two pool threads serve two users and record, for the updates the route
\* counts; both conversations wait for the language of a learn request;
\* user 1 sends the greeting or a language, user 2 a language
IsoUsers == {1, 2}

IsoInit ==
    /\ user_state = [c \in IsoUsers |-> [step |-> STATE_LEARN_LANGUAGE_SELECTION,
                                         topic |-> "1"]]
    /\ queue = <<>>
    /\ thread = [t \in Threads |-> Idle]
    /\ recording = TRUE
    /\ user_state_lock = 0
    /\ call = <<>>
    /\ webhook = [WebhookOff EXCEPT !.on = TRUE]
    /\ gemini = <<>>
    /\ split = <<>>

IsoNext ==
    \/ \E text \in RaceTexts : telegram_webhook(Update(1, text))
    \/ telegram_webhook(Update(2, "1"))
    \/ \E t \in Threads : process_user_message(t)
    \/ \E t \in Threads : send_message(t)
    \/ \E t \in Threads : send_chunk(t)
    \/ \E t \in Threads : do_update_user_state(t)
    \/ \E t \in Threads : do_set_user_state(t)
    \/ \E t \in Threads : do_cleanup_user_state(t)
    \/ \E t \in Threads : do_get_user_state(t)
    \/ \E t \in Threads : call_gemini(t)
    \/ \E t \in Threads : gemini_returns(t, {<<"*", " ", "a">>, NoText})
    \/ \E t \in Threads : task_done(t)

IsoSpec == IsoInit /\ [][IsoNext]_vars

-----------------------------------------------------------------------------
(* The claims.                                                             *)

\* thread t is inside call_gemini for the handler `handler`
InFlight(t, handler) == At(t, "gemini_response") /\ Next_op(t).key = handler

\* C1: duplicate-request guard.  While the generation call that one message
\* of a user started from the learn language-input step is in flight, no
\* second generation call is started for a second message of that user
\* dispatched on the same step: at most one such call is in flight per user.
C1_DuplicateRequestGuard ==
    \A t1, t2 \in Threads :
        (t1 # t2 /\ thread[t1].chat_id = thread[t2].chat_id /\ InFlight(t1, "learn"))
            => ~InFlight(t2, "learn")

\* the update callers of the line-level store run
Updaters == {c \in Callers : call[c].op = "update_user_state"}

\* all callers returned, none of them replaced or removed the session, and
\* the update callers wrote pairwise different fields
DisjointUpdatesDone ==
    /\ \A c \in Callers : call[c].pc = "done"
    /\ \A c \in Callers : call[c].op \in {"update_user_state", "get_user_state"}
    /\ \A c, d \in Updaters : c # d => DOMAIN call[c].dict \cap DOMAIN call[d].dict = {}

\* C2: session atomicity.  When concurrent update_user_state calls for one
\* chat id, each writing a different field, have all returned (and no call
\* removed or replaced the session), the session holds every written field
\* with the written value.
C2_NoLostUpdate ==
    DisjointUpdatesDone =>
        \A c \in Updaters :
            /\ 1 \in DOMAIN user_state
            /\ \A key \in DOMAIN call[c].dict :
                 /\ key \in DOMAIN user_state[1]
                 /\ user_state[1][key] = call[c].dict[key]

\* every caller was an update, the session did not exist before, and it now
\* holds one field per caller
C2_Witness ==
    /\ DisjointUpdatesDone
    /\ Updaters = Callers
    /\ 1 \in DOMAIN user_state
    /\ "step" \notin DOMAIN user_state[1]
    /\ Cardinality(DOMAIN user_state[1]) = NumCallers

\* C3: every session in the store has a step, one of the defined steps.
C3_StepNeverNull ==
    \A chat_id \in DOMAIN user_state :
        /\ "step" \in DOMAIN user_state[chat_id]
        /\ user_state[chat_id]["step"] \in Steps

-----------------------------------------------------------------------------
(* Claims about one message processed after the other (SeqSpec).  A thread *)
(* that has executed its whole continuation is Done; its frame then holds  *)
(* the record of the task.                                                 *)

Done(t) == thread[t].busy /\ thread[t].k = <<>>

\* the step of the session the task of t was dispatched on
StepOf(t) == DictGet(thread[t].state, "step", None)

\* the phrase keys of the sends of t's task, in order
SentKeys(t) == [i \in 1..Len(thread[t].sent) |-> thread[t].sent[i].key]

\* the elements of a sequence
Range(seq) == {seq[i] : i \in 1..Len(seq)}

\* the texts of the sends of t's task, in order
SentTexts(t) == [i \in 1..Len(thread[t].sent) |-> thread[t].sent[i].text]

\* the session of t's user is `session`
SessionIs(t, session) ==
    /\ thread[t].chat_id \in DOMAIN user_state
    /\ user_state[thread[t].chat_id] = session

SessionAbsent(t) == thread[t].chat_id \notin DOMAIN user_state

\* the texts that are the greeting trigger in some letter case
Greetings == {"hi edgo", "/START"}

\* C4: global interrupt.  A task for a greeting text, dispatched on any
\* session or none, sends the welcome menu and leaves the session of the
\* user equal to exactly {step: MENU}.
C4_GreetingResets ==
    \A t \in Threads :
        (Done(t) /\ thread[t].incoming_msg \in Greetings) =>
            /\ SentKeys(t) = <<"welcome">>
            /\ SessionIs(t, [step |-> STATE_MENU])

\* the greeting in upper case arrived in step POST_LEARN, where the session
\* held topic, language and notes
C4_Witness ==
    \E t \in Threads :
        /\ Done(t)
        /\ thread[t].incoming_msg = "/START"
        /\ StepOf(t) = STATE_POST_LEARN
        /\ DOMAIN thread[t].state = {"step", "topic", "language", "full_notes"}
        /\ SessionIs(t, [step |-> STATE_MENU])

\* C5: in step MENU, "1" moves the session to the learn topic-input step and
\* sends the learn topic prompt, "2" moves it to the quiz topic-input step
\* and sends the quiz topic prompt, and any other text that is no greeting
\* leaves the session as it was and sends the invalid-option notice.
C5_MenuSelection ==
    \A t \in Threads :
        (Done(t) /\ StepOf(t) = STATE_MENU /\ thread[t].incoming_msg \notin Greetings) =>
            CASE thread[t].incoming_msg = "1" ->
                   /\ SentKeys(t) = <<"learn_prompt">>
                   /\ SessionIs(t, DictUpdate(thread[t].state, [step |-> STATE_LEARN_TOPIC]))
              [] thread[t].incoming_msg = "2" ->
                   /\ SentKeys(t) = <<"mcq_prompt">>
                   /\ SessionIs(t, DictUpdate(thread[t].state, [step |-> STATE_MCQ_TOPIC]))
              [] OTHER ->
                   /\ SentKeys(t) = <<"invalid_option">>
                   /\ SessionIs(t, thread[t].state)
                   /\ user_state[thread[t].chat_id]["step"] = STATE_MENU

\* "2" was processed in step MENU
C5_Witness ==
    \E t \in Threads :
        /\ Done(t)
        /\ StepOf(t) = STATE_MENU
        /\ thread[t].incoming_msg = "2"
        /\ SentKeys(t) = <<"mcq_prompt">>
        /\ SessionIs(t, [step |-> STATE_MCQ_TOPIC])

\* the task of t was dispatched on a language-input step, its generation
\* call returned a text and all its sends succeeded
GeneratedOk(t) ==
    /\ Done(t)
    /\ thread[t].incoming_msg \notin Greetings
    /\ StepOf(t) \in {STATE_LEARN_LANGUAGE_SELECTION, STATE_MCQ_LANGUAGE_SELECTION}
    /\ thread[t].response # NoText
    /\ ~thread[t].failed

\* C6: after a successful generation from a language-input step with all
\* sends succeeding, the sends that follow the call are the intro notice,
\* the chunks of the text in order, and the follow-up prompt; the step is
\* then POST_LEARN (learn) or POST_QUIZ (quiz); the text is stored as notes
\* in learn mode and the notes field is not written in quiz mode.
C6_GenerationSuccess ==
    \A t \in Threads :
        GeneratedOk(t) =>
            LET learn == StepOf(t) = STATE_LEARN_LANGUAGE_SELECTION
                content == IF learn THEN format_bullet_points(thread[t].response)
                                    ELSE thread[t].response
                chunks == split_message(content, ChunkSize)
                n == Len(chunks)
                language == Capitalize(Strip(thread[t].incoming_msg))
                before == DictUpdate(thread[t].state, [language |-> language])
            IN  /\ n >= 1
                /\ Len(thread[t].sent) = n + 3
                /\ SentKeys(t)[1] = IF learn THEN "processing_request" ELSE "processing_quiz"
                /\ SentKeys(t)[2] = IF learn THEN "notes_intro" ELSE "quiz_intro"
                /\ \A i \in 1..n :
                     /\ SentKeys(t)[2 + i] = "chunk"
                     /\ SentTexts(t)[2 + i] = chunks[i]
                /\ SentKeys(t)[n + 3] = IF learn THEN "post_learn_prompt" ELSE "post_quiz_prompt"
                /\ IF learn
                   THEN SessionIs(t, DictUpdate(before,
                            [step |-> STATE_POST_LEARN, full_notes |-> thread[t].response]))
                   ELSE /\ SessionIs(t, DictUpdate(before, [step |-> STATE_POST_QUIZ]))
                        /\ "full_notes" \notin DOMAIN user_state[thread[t].chat_id]

\* a learn-mode generation returned the text "ab cd", sent in two chunks
C6_Witness ==
    \E t \in Threads :
        /\ GeneratedOk(t)
        /\ StepOf(t) = STATE_LEARN_LANGUAGE_SELECTION
        /\ SentTexts(t) = <<NoText, NoText, <<"a", "b">>, <<"c", "d">>, NoText>>
        /\ user_state[thread[t].chat_id]["step"] = STATE_POST_LEARN

\* the generation call of t's task reported failure
GenerationFailed(t) ==
    /\ Done(t)
    /\ thread[t].calls = 1
    /\ thread[t].response = NoText

\* C7: when the generation call fails, in learn mode, in quiz mode and in
\* the quiz re-entry from POST_LEARN, the only send after the call is the
\* error notice, and the session of the user is absent afterwards.
C7_GenerationFailure ==
    \A t \in Threads :
        GenerationFailed(t) =>
            /\ StepOf(t) \in {STATE_LEARN_LANGUAGE_SELECTION,
                              STATE_MCQ_LANGUAGE_SELECTION, STATE_POST_LEARN}
            /\ SentKeys(t) = IF StepOf(t) = STATE_LEARN_LANGUAGE_SELECTION
                             THEN <<"processing_request", "fetch_error">>
                             ELSE <<"processing_quiz", "quiz_error">>
            /\ SessionAbsent(t)

\* the generation failed in the quiz re-entry from POST_LEARN
C7_Witness ==
    \E t \in Threads :
        /\ GenerationFailed(t)
        /\ StepOf(t) = STATE_POST_LEARN
        /\ SessionAbsent(t)

\* the task of t was dispatched on `step` for a text that is no greeting
DoneIn(t, step) ==
    /\ Done(t)
    /\ StepOf(t) = step
    /\ thread[t].incoming_msg \notin Greetings

\* the session the task of t was dispatched on holds notes
NotesPresent(t) == DictGet(thread[t].state, "full_notes", NoText) # NoText

\* a document send is among the sends of t's task
DocumentSent(t) ==
    \E i \in 1..Len(thread[t].sent) : thread[t].sent[i].kind = "document"

\* the sends of the PDF branch: the download notice, then the document when
\* create_pdf_notes returned one and the render-failure notice when not; the
\* no-notes notice alone when the session holds no notes
PdfBranchSends(t) ==
    IF NotesPresent(t)
    THEN /\ Len(thread[t].pdf_data) = 1
         /\ SentKeys(t) = <<"download_success",
                            IF thread[t].pdf_data[1] THEN "document_caption"
                                                     ELSE "pdf_font_error">>
         /\ DocumentSent(t) <=> thread[t].pdf_data[1]
    ELSE SentKeys(t) = <<"no_notes">>

\* C8 as stated: in step POST_LEARN the text "pdf" in any letter case issues
\* a document send when notes are present and sends the no-notes notice
\* when they are absent; a text that is neither "pdf" nor "quiz" is answered
\* by the clarification; in both cases the session is absent afterwards.
C8_PostLearnAsStated ==
    \A t \in Threads :
        DoneIn(t, STATE_POST_LEARN) =>
            /\ Lower(thread[t].incoming_msg) = "pdf" =>
                 /\ IF NotesPresent(t) THEN DocumentSent(t)
                                       ELSE "no_notes" \in Range(SentKeys(t))
                 /\ SessionAbsent(t)
            /\ Lower(thread[t].incoming_msg) \notin {"pdf", "quiz"} =>
                 /\ "reply_pdf_or_quiz" \in Range(SentKeys(t))
                 /\ SessionAbsent(t)

\* C8 amended: in step POST_LEARN a text equal, letter case aside, to the
\* PDF word of the session's language ("pdf" for English) sends the download
\* notice and then the document when rendering returned one and the
\* render-failure notice when it did not, or the no-notes notice alone when
\* notes are absent; a text equal to neither the PDF word nor the quiz word
\* is answered by the clarification alone; in both cases the session is
\* absent afterwards.
C8_PostLearn ==
    \A t \in Threads :
        DoneIn(t, STATE_POST_LEARN) =>
            LET msg == Lower(thread[t].incoming_msg)
                language == DictGet(thread[t].state, "language", "English")
                pdf_word == thread[t].words[1]
                quiz_word == thread[t].words[2]
            IN  /\ Len(thread[t].words) = 2
                /\ Lower(language) = "english" => thread[t].words = <<"pdf", "quiz">>
                /\ msg = pdf_word => PdfBranchSends(t) /\ SessionAbsent(t)
                /\ msg \notin {pdf_word, quiz_word} =>
                     /\ SentKeys(t) = <<"reply_pdf_or_quiz">>
                     /\ SessionAbsent(t)

\* "PDF" was sent in step POST_LEARN with notes present and rendering failed
C8_Witness ==
    \E t \in Threads :
        /\ DoneIn(t, STATE_POST_LEARN)
        /\ thread[t].incoming_msg = "PDF"
        /\ thread[t].words[1] = "pdf"
        /\ NotesPresent(t)
        /\ thread[t].pdf_data = <<FALSE>>
        /\ SentKeys(t) = <<"download_success", "pdf_font_error">>
        /\ SessionAbsent(t)

\* the task of t was the quiz re-entry from POST_LEARN: the text was the
\* quiz word and not the PDF word of the session's language
QuizReentry(t) ==
    /\ DoneIn(t, STATE_POST_LEARN)
    /\ Len(thread[t].words) = 2
    /\ Lower(thread[t].incoming_msg) = thread[t].words[2]
    /\ Lower(thread[t].incoming_msg) # thread[t].words[1]

\* the generation call of t's task used the stored topic and language
StoredPrompt(t) ==
    thread[t].prompt = [topic |-> DictGet(thread[t].state, "topic", None),
                        language |-> DictGet(thread[t].state, "language", "English")]

\* while a task dispatched on POST_LEARN runs, the session is on no
\* topic-input or language-input step
NoInputStep ==
    \A t \in Threads :
        (thread[t].busy /\ StepOf(t) = STATE_POST_LEARN
                        /\ thread[t].incoming_msg \notin Greetings
                        /\ thread[t].chat_id \in DOMAIN user_state) =>
            DictGet(user_state[thread[t].chat_id], "step", None)
                \in {STATE_POST_LEARN, STATE_POST_QUIZ}

\* C9 as stated: in step POST_LEARN the text "quiz" issues exactly one
\* generation call with the stored topic and language; on success the step
\* is POST_QUIZ with the notes still present, and an affirmative reply in
\* POST_QUIZ with notes present sends the document.
C9_QuizReentryAsStated ==
    \A t \in Threads :
        /\ (DoneIn(t, STATE_POST_LEARN) /\ Lower(thread[t].incoming_msg) = "quiz") =>
             /\ thread[t].calls = 1
             /\ StoredPrompt(t)
             /\ (thread[t].response # NoText /\ ~thread[t].failed) =>
                  SessionIs(t, DictUpdate(thread[t].state, [step |-> STATE_POST_QUIZ]))
        /\ (DoneIn(t, STATE_POST_QUIZ) /\ NotesPresent(t)
              /\ Lower(thread[t].incoming_msg) = thread[t].words[1]) =>
             DocumentSent(t)

\* C9 amended: in step POST_LEARN a text equal, letter case aside, to the
\* quiz word of the session's language ("quiz" for English) issues exactly
\* one generation call with the stored topic and language and the session
\* passes through no topic-input or language-input step; when the call and
\* every send succeed the step is POST_QUIZ and the notes are still present,
\* so that a following reply equal to the affirmative word sends the
\* download notice and then the document if rendering returned one, the
\* render-failure notice if not.
C9_QuizReentry ==
    /\ NoInputStep
    /\ \A t \in Threads :
        /\ QuizReentry(t) =>
             /\ thread[t].calls = 1
             /\ StoredPrompt(t)
             /\ SentKeys(t)[1] = "processing_quiz"
             /\ Range(SentKeys(t)) \cap {"learn_prompt", "mcq_prompt", "language_prompt"} = {}
             /\ (thread[t].response # NoText /\ ~thread[t].failed) =>
                  /\ SessionIs(t, DictUpdate(thread[t].state, [step |-> STATE_POST_QUIZ]))
                  /\ NotesPresent(t)
                  /\ user_state[thread[t].chat_id]["full_notes"] = thread[t].state["full_notes"]
        /\ (DoneIn(t, STATE_POST_QUIZ) /\ NotesPresent(t)
              /\ Lower(thread[t].incoming_msg) = thread[t].words[1]) =>
             /\ SentKeys(t)[1] = "download_success"
             /\ Len(thread[t].pdf_data) = 1
             /\ DocumentSent(t) <=> thread[t].pdf_data[1]
             /\ ~thread[t].pdf_data[1] => SentKeys(t)[2] = "pdf_font_error"

\* "quiz" was sent in step POST_LEARN, the quiz was generated and sent, and
\* the session is on POST_QUIZ with the notes of the learn flow
C9_Witness ==
    \E t \in Threads :
        /\ QuizReentry(t)
        /\ thread[t].incoming_msg = "quiz"
        /\ thread[t].calls = 1
        /\ thread[t].response # NoText
        /\ ~thread[t].failed
        /\ SessionIs(t, DictUpdate(thread[t].state, [step |-> STATE_POST_QUIZ]))
        /\ "full_notes" \in DOMAIN user_state[thread[t].chat_id]

\* the text of t's task is the affirmative word of the session's language
Affirmative(t) ==
    /\ Len(thread[t].words) = 1
    /\ Lower(thread[t].incoming_msg) = thread[t].words[1]

\* C10 as stated: in step POST_QUIZ an affirmative text with notes present
\* has the document sent, every other case sends the closing notice, and
\* the session is absent afterwards.
C10_PostQuizAsStated ==
    \A t \in Threads :
        DoneIn(t, STATE_POST_QUIZ) =>
            /\ IF Affirmative(t) /\ NotesPresent(t)
               THEN DocumentSent(t)
               ELSE "end_conversation" \in Range(SentKeys(t))
            /\ SessionAbsent(t)

\* C10 amended: in step POST_QUIZ an affirmative text ("yes" for English,
\* letter case aside) with notes present sends the download notice and then
\* the document when rendering returned one and the render-failure notice
\* when not; an affirmative text with notes absent sends the no-notes
\* notice; any other text sends the closing notice; in all cases the
\* session is absent afterwards.
C10_PostQuiz ==
    \A t \in Threads :
        DoneIn(t, STATE_POST_QUIZ) =>
            LET language == DictGet(thread[t].state, "language", "English")
            IN  /\ Len(thread[t].words) = 1
                /\ Lower(language) = "english" => thread[t].words = <<"yes">>
                /\ IF Affirmative(t)
                   THEN PdfBranchSends(t)
                   ELSE SentKeys(t) = <<"end_conversation">>
                /\ SessionAbsent(t)

\* "yes" was sent after a quiz started from the menu, which stored no notes
C10_Witness ==
    \E t \in Threads :
        /\ DoneIn(t, STATE_POST_QUIZ)
        /\ Affirmative(t)
        /\ thread[t].incoming_msg = "yes"
        /\ ~NotesPresent(t)
        /\ SentKeys(t) = <<"no_notes">>
        /\ SessionAbsent(t)

\* C11: outbound delivery failure.  Once a send of a task has failed, the
\* task attempts no further send, and when the task has finished the
\* session of its user is absent (so the step is never advanced to a state
\* that waits for a reply to a message that was not delivered).
C11_SendFailureAborts ==
    [][\A t \in Threads :
          (thread[t].failed /\ thread'[t].busy) =>
              /\ thread'[t].sent = thread[t].sent
              /\ thread'[t].k = <<>> => thread[t].chat_id \notin DOMAIN user_state']_vars

\* the update recorded as the last one received lacks the body, the message
\* or the text
LastMalformed(w) ==
    \/ ~w.last[1]
    \/ ~w.last[2]
    \/ ~w.last[3]

\* C12: a malformed update (no body, no message or no text) is acknowledged,
\* nothing is submitted to the pool, no thread does anything (so nothing is
\* sent), and the session store is left as it was.
C12_MalformedUpdateIgnored ==
    [][(webhook'.received = webhook.received + 1 /\ LastMalformed(webhook')) =>
          /\ webhook'.acked = webhook.acked + 1
          /\ webhook'.submitted = webhook.submitted
          /\ UNCHANGED <<user_state, queue, thread>>]_vars

\* an update with a message and no text arrived while a thread was at work
\* on a session, and nothing has been submitted for it
C12_Witness ==
    /\ webhook.on
    /\ webhook.last = <<TRUE, TRUE, FALSE>>
    /\ webhook.acked = webhook.received
    /\ webhook.received = webhook.submitted + 1
    /\ queue = <<>>
    /\ \E t \in Threads : thread[t].busy /\ thread[t].k # <<>>
    /\ 1 \in DOMAIN user_state

\* C13: every update is acknowledged when it is received, whatever the
\* threads are doing; submitted work is queued until a thread takes it and
\* is taken once; and every submitted update is eventually taken by a
\* thread that runs its state-machine step.
C13_EveryUpdateProcessed ==
    /\ [](webhook.acked = webhook.received)
    /\ [](webhook.started + Len(queue) = webhook.submitted)
    /\ \A n \in 1..MaxUpdates :
         (webhook.submitted >= n) ~> (webhook.started >= n)

\* the error notices among the sends of t's task
ErrorNotices(t) ==
    {i \in 1..Len(thread[t].sent) :
        thread[t].sent[i].key \in {"connection_error", "unknown_error"}}

\* C14: when a handler raised while a message was processed, the task still
\* ends in the worker, the session of the user is absent, exactly one error
\* notice was sent to the user, as the last send, and the sessions of the
\* other users are what they were when the message was dispatched.
C14_HandlerException ==
    \A t \in Threads :
        (Done(t) /\ thread[t].raised > 0) =>
            /\ SessionAbsent(t)
            /\ Cardinality(ErrorNotices(t)) = 1
            /\ Len(thread[t].sent) \in ErrorNotices(t)
            /\ thread[t].sent[Len(thread[t].sent)].to = thread[t].chat_id
            /\ \A c \in ExcUsers \ {thread[t].chat_id} :
                 /\ c \in DOMAIN user_state <=> c \in DOMAIN thread[t].store
                 /\ c \in DOMAIN user_state => user_state[c] = thread[t].store[c]

\* a handler of user 1 raised after its first sends, in a generation step,
\* while user 2 had a session
C14_Witness ==
    \E t \in Threads :
        /\ Done(t)
        /\ thread[t].raised = 1
        /\ thread[t].chat_id = 1
        /\ StepOf(t) = STATE_LEARN_LANGUAGE_SELECTION
        /\ Len(thread[t].sent) >= 2
        /\ SessionAbsent(t)
        /\ 2 \in DOMAIN user_state

\* call_gemini has returned
GeminiDone == gemini.pc = "done"

\* every answer received so far was the rate limit
AlwaysRateLimited == \A i \in 1..Len(gemini.seen) : gemini.seen[i] = "429"

\* C15: retry ceiling.  A call never performs more than 3 requests; its
\* waits are non-decreasing and at most 10 each; and a call that received the
\* rate limit on every attempt ends after exactly 3 requests with waits
\* 1, 2, 4 and reports failure.
C15_RetryCeiling ==
    /\ gemini.requests <= 3
    /\ \A i \in 1..Len(gemini.delays) :
         /\ gemini.delays[i] <= 10
         /\ i > 1 => gemini.delays[i - 1] <= gemini.delays[i]
    /\ (GeminiDone /\ AlwaysRateLimited) =>
         /\ gemini.requests = 3
         /\ gemini.delays = <<1, 2, 4>>
         /\ gemini.result = None

\* the call met the rate limit three times and gave up
C15_Witness ==
    /\ GeminiDone
    /\ gemini.seen = <<"429", "429", "429">>
    /\ gemini.requests = 3
    /\ gemini.result = None

\* C16: a timeout is a retryable failure: a call whose last request timed
\* out has reported failure only if it made all 3 attempts.
C16_TimeoutRetried ==
    (GeminiDone /\ gemini.seen # <<>> /\ gemini.seen[Len(gemini.seen)] = "timeout") =>
        gemini.requests = 3

\* C17: an answer with a failure status other than the rate limit, and a
\* success answer without the generated text, end the call: it is the last
\* answer the call asks for, and the call returns None, never a text.
C17_TerminalFailure ==
    /\ \A i \in 1..Len(gemini.seen) :
         gemini.seen[i] \in {"error", "malformed"} =>
             /\ i = Len(gemini.seen)
             /\ gemini.requests = i
             /\ GeminiDone => gemini.result = None
    /\ gemini.result \in {"pending", None, "text"}
    /\ gemini.result = "text" =>
         gemini.seen # <<>> /\ gemini.seen[Len(gemini.seen)] = "ok"

\* after one rate limit the server answered without the generated text, and
\* the call returned None while the server had further answers ready
C17_Witness ==
    /\ GeminiDone
    /\ gemini.seen = <<"429", "malformed">>
    /\ gemini.script # <<>>
    /\ gemini.result = None

\* the text has a character that is not whitespace
HasWord(text) == \E i \in 1..Len(text) : text[i] \notin Whitespace

\* C18: when split_message returns, every chunk is non-empty, has no
\* whitespace at either end and is at most chunk_size long; a text that is
\* empty or only whitespace gives no chunk, and a text shorter than
\* chunk_size that has a non-whitespace character gives exactly one chunk.
C18_ChunkContract ==
    split.pc = "done" =>
        /\ \A i \in 1..Len(split.parts) :
             /\ split.parts[i] # <<>>
             /\ Head(split.parts[i]) \notin Whitespace
             /\ split.parts[i][Len(split.parts[i])] \notin Whitespace
             /\ Len(split.parts[i]) <= split.chunk_size
        /\ ~HasWord(split.text) => split.parts = <<>>
        /\ (Len(split.text) < split.chunk_size /\ HasWord(split.text)) =>
             Len(split.parts) = 1
        /\ split.parts = split_message(split.text, split.chunk_size)

\* "a aa" in chunks of 3 came back as "a" and "aa", the second one stripped
C18_Witness ==
    /\ split.pc = "done"
    /\ split.text = <<"a", " ", "a", "a">>
    /\ split.chunk_size = 3
    /\ split.parts = << <<"a">>, <<"a", "a">> >>

\* C19: every pass of the loop of split_message strictly advances the scan
\* position.
C19_PassAdvances ==
    [][split'.passes = split.passes + 1 => split'.start > split.start]_vars

\* the highest index of the window [start, end) that holds a whitespace
\* character, or -1
LastWhitespace(text, start, end) ==
    LET hits == {i \in start..(end - 1) : text[i + 1] \in Whitespace}
    IN  IF hits = {} THEN -1 ELSE CHOOSE i \in hits : \A j \in hits : j <= i

\* C20: a pass whose window ends before the end of the text, on a character
\* that is not whitespace, cuts at the last whitespace character (space,
\* newline or tab) of the window, and at chunk_size characters when the
\* window has none.  Windows whose only whitespace character is their first
\* character are left aside: a cut there makes no progress (C19).
C20_WordBoundary ==
    [][LET window_end == split.start + split.chunk_size
           last == LastWhitespace(split.text, split.start, window_end)
       IN  (/\ split'.passes = split.passes + 1
            /\ window_end < Len(split.text)
            /\ split.text[window_end + 1] \notin Whitespace
            /\ last # split.start) =>
               split'.start = IF last # -1 THEN last ELSE window_end]_vars

\* " ".join(parts)
RECURSIVE JoinSpaces(_)
JoinSpaces(parts) ==
    IF parts = <<>> THEN <<>>
    ELSE IF Len(parts) = 1 THEN parts[1]
    ELSE parts[1] \o <<" ">> \o JoinSpaces(Tail(parts))

\* the characters of the text that are not whitespace, in their order
RECURSIVE NonWhitespace(_)
NonWhitespace(text) ==
    IF text = <<>> THEN <<>>
    ELSE IF Head(text) \in Whitespace THEN NonWhitespace(Tail(text))
    ELSE <<Head(text)>> \o NonWhitespace(Tail(text))

\* the words of the text: its maximal runs of non-whitespace characters
RECURSIVE WordsFrom(_, _)
WordsFrom(text, word) ==
    IF text = <<>> THEN (IF word = <<>> THEN <<>> ELSE <<word>>)
    ELSE IF Head(text) \in Whitespace
         THEN (IF word = <<>> THEN <<>> ELSE <<word>>) \o WordsFrom(Tail(text), <<>>)
         ELSE WordsFrom(Tail(text), Append(word, Head(text)))

Words(text) == WordsFrom(text, <<>>)

C22_ResetSurvivesInFlight ==
    [][\A t1 \in Threads, t2 \in Threads :
          (/\ t1 # t2
           /\ Done(t2)
           /\ is_greeting(thread[t2].incoming_msg)
           /\ thread[t1].busy
           /\ thread[t1].chat_id = thread[t2].chat_id
           /\ ~is_greeting(thread[t1].incoming_msg)
           /\ thread[t1].calls >= 1
           /\ thread[t1].state # [step |-> STATE_MENU]
           /\ SessionIs(t2, [step |-> STATE_MENU])
           /\ thread'[t1] # thread[t1]) =>
              /\ thread[t2].chat_id \in DOMAIN user_state'
              /\ user_state'[thread[t2].chat_id] = [step |-> STATE_MENU]]_vars

\* the phrases that ask the user for the next input
PromptKeys ==
    {"welcome", "learn_prompt", "mcq_prompt", "language_prompt",
     "post_learn_prompt", "post_quiz_prompt"}

\* the steps on which handle_message interprets the reply to a prompt
ReplySteps(key) ==
    IF key = "welcome" THEN {STATE_MENU}
    ELSE IF key = "learn_prompt" THEN {STATE_LEARN_TOPIC}
    ELSE IF key = "mcq_prompt" THEN {STATE_MCQ_TOPIC}
    ELSE IF key = "language_prompt"
    THEN {STATE_LEARN_LANGUAGE_SELECTION, STATE_MCQ_LANGUAGE_SELECTION}
    ELSE IF key = "post_learn_prompt" THEN {STATE_POST_LEARN}
    ELSE {STATE_POST_QUIZ}

\* the phrase key of the last send of t's task
LastSentKey(t) == thread[t].sent[Len(thread[t].sent)].key

\* C23: at the send of a prompt the stored step of the user is the step
\* that interprets the reply; and a message of the user that is dispatched
\* while the task that sent the prompt as its last message is still running
\* is dispatched on that step.
C23_StepSetBeforePrompt ==
    [][/\ \A t \in Threads :
            (/\ Len(thread'[t].sent) = Len(thread[t].sent) + 1
             /\ Next_op(t).key \in PromptKeys) =>
                /\ thread[t].chat_id \in DOMAIN user_state
                /\ DictGet(user_state[thread[t].chat_id], "step", None)
                       \in ReplySteps(Next_op(t).key)
       /\ \A t1 \in Threads, t2 \in Threads :
            (/\ t1 # t2
             /\ ~thread[t1].busy /\ thread'[t1].busy
             /\ thread[t2].busy /\ thread[t2].k # <<>>
             /\ thread'[t1].chat_id = thread[t2].chat_id
             /\ thread[t2].sent # <<>>
             /\ LastSentKey(t2) \in PromptKeys) =>
                DictGet(thread'[t1].state, "step", None) \in ReplySteps(LastSentKey(t2))]_vars

\* the user whose message thread t takes up or processes in a step
UserOf(t) == IF thread[t].busy THEN thread[t].chat_id ELSE thread'[t].chat_id

\* C24: per-user isolation.  A step of a thread on a message of user A, from
\* the dispatch to the return, leaves the session of every other user as it
\* was, present or absent, and every send of the step is addressed to A.
C24_PerUserIsolation ==
    [][\A t \in Threads :
          thread'[t] # thread[t] =>
              /\ \A b \in IsoUsers \ {UserOf(t)} :
                   /\ b \in DOMAIN user_state <=> b \in DOMAIN user_state'
                   /\ b \in DOMAIN user_state => user_state'[b] = user_state[b]
              /\ \A i \in (Len(thread[t].sent) + 1)..Len(thread'[t].sent) :
                   thread'[t].sent[i].to = UserOf(t)]_vars

\* user 1's generation failed and its session was deleted while a task of
\* user 2 was running on the other thread; user 2's session is still there
C24_Witness ==
    \E t1 \in Threads, t2 \in Threads :
        /\ Done(t1)
        /\ thread[t1].chat_id = 1
        /\ thread[t1].calls = 1
        /\ thread[t1].response = NoText
        /\ SessionAbsent(t1)
        /\ thread[t2].busy
        /\ thread[t2].chat_id = 2
        /\ thread[t2].sent # <<>>
        /\ 2 \in DOMAIN user_state

=============================================================================
